---- MODULE Spec2Model ----
(***************************************************************************)
(* Travin Canvas: the chat sidebar (ChatInterface), the markdown canvas    *)
(* (MarkdownCanvas) and the Streamlit session state they share.            *)
(*                                                                         *)
(* Streamlit runs src/main.py from the top on every widget event; one      *)
(* action of this model is one such script run: ChatInterface.render (the  *)
(* loop over the chat history, then the handler of the widget that fired), *)
(* then MarkdownCanvas.render.  A handler that calls st.rerun() ends the   *)
(* run where it stands and leaves pc = "rerun"; the run Streamlit starts   *)
(* next is the action Rerun.  The Edit and View buttons only choose what   *)
(* is drawn and are left out; the editor is taken to be on the page.       *)
(*                                                                         *)
(* Text is a sequence of tokens.  The token Marker stands for the phrase   *)
(* "I'll update the document with:", Space for a whitespace character,     *)
(* every other token for a piece of text without the phrase.               *)
(*                                                                         *)
(* The specifications: Spec, every widget of the page with plain messages; *)
(* SpecCanvas, the canvas alone with its methods; SpecSetUndo and          *)
(* SpecRoundTrip, set_content and undo calls; SpecClassify, one cycle over *)
(* every short response text; SpecResearch, cycles with the "/research"    *)
(* command, the webhook relay and the services' failures; SpecImport, the  *)
(* uploader with files that fail to load; SpecGenerate, one LLM manager    *)
(* and its generate_response; SpecToc, the table of contents of a text.    *)
(***************************************************************************)
EXTENDS Integers, Sequences, FiniteSets, TLC

VARIABLES
    markdown_content,    \* st.session_state.markdown_content
    undo_history,        \* st.session_state.undo_history
    chat_history,        \* st.session_state.chat_history
    pending_edit,        \* st.session_state.pending_edit
    edit_confirmed,      \* st.session_state.edit_confirmed
    uploaded_file,       \* the file held by the st.file_uploader widget
    last_uploaded_file,  \* st.session_state.last_uploaded_file
    file_processed,      \* st.session_state.file_processed
    pc,                  \* "idle": waiting for the user; "rerun": st.rerun() was called
    event,               \* the widget event (or method call) the last run served
    notified,            \* the arguments on_content_change got during the last run
    conversation_history, \* llm_manager.conversation_history when the last run ended
    trail,               \* SpecSetUndo: the distinct contents replaced by set_content, oldest first
    last_set,            \* the argument of the latest set_content call
    undone               \* SpecSetUndo: the number of undo calls made

appVars == <<markdown_content, undo_history, chat_history, pending_edit,
             edit_confirmed, uploaded_file, last_uploaded_file,
             file_processed, pc, event, notified, conversation_history>>
auxVars == <<trail, last_set, undone>>
vars == <<markdown_content, undo_history, chat_history, pending_edit,
          edit_confirmed, uploaded_file, last_uploaded_file,
          file_processed, pc, event, notified, conversation_history,
          trail, last_set, undone>>

(***************************************************************************)
(* Bounds of the model.                                                    *)
(***************************************************************************)
\* the chat history is not extended beyond this many turns
MaxChat == 6
\* SpecSetUndo: set_content is not called once the trail holds this many contents
MaxTrail == 12
\* SpecSetUndo: the number of undo calls
MaxUndos == 12
\* SpecClassify: the response texts have at most this many tokens
MaxText == 4
\* SpecResearch: research results are not appended beyond this many tokens
MaxDoc == 5

(***************************************************************************)
(* Text.                                                                   *)
(***************************************************************************)
Marker == "M"
Space == "_"
Empty == <<>>

\* the document contents the user types, uploads or is proposed
Contents == {Empty, <<"a">>, <<"b">>}

\* Python truthiness of a str
Truthy(text) == text # Empty

\* str.find(marker): the 1-based place of the first marker, 0 for -1
FindMarker(text) ==
    IF \E k \in 1..Len(text) : text[k] = Marker
    THEN CHOOSE k \in 1..Len(text) :
            /\ text[k] = Marker
            /\ \A j \in 1..(k - 1) : text[j] # Marker
    ELSE 0

\* marker in text
ContainsMarker(text) == \E k \in 1..Len(text) : text[k] = Marker

\* text.startswith(marker)
StartsWithMarker(text) == Len(text) >= 1 /\ text[1] = Marker

RECURSIVE LStrip(_)
LStrip(text) ==
    IF text # Empty /\ Head(text) = Space THEN LStrip(Tail(text)) ELSE text

RECURSIVE RStrip(_)
RStrip(text) ==
    IF text # Empty /\ text[Len(text)] = Space
    THEN RStrip(SubSeq(text, 1, Len(text) - 1))
    ELSE text

\* str.strip()
Strip(text) == RStrip(LStrip(text))

\* the text after the phrase, not stripped
AfterMarkerUntrimmed(text) == SubSeq(text, FindMarker(text) + 1, Len(text))

\* content[marker_index + len(marker):].strip()
AfterMarker(text) == Strip(SubSeq(text, FindMarker(text) + 1, Len(text)))

\* seq[-n:]
LastN(seq, n) ==
    IF Len(seq) > n THEN SubSeq(seq, Len(seq) - n + 1, Len(seq)) ELSE seq

Last(seq) == seq[Len(seq)]
Front(seq) == SubSeq(seq, 1, Len(seq) - 1)

(***************************************************************************)
(* The pending proposal: None, or a text.                                  *)
(***************************************************************************)
NoEdit == [set |-> FALSE, content |-> Empty]
SomeEdit(text) == [set |-> TRUE, content |-> text]

(***************************************************************************)
(* Chat turns.                                                             *)
(***************************************************************************)
Turn(role, content) == [role |-> role, content |-> content, has_edit |-> FALSE]

ConfigTurn == Turn("assistant", <<"System Configuration">>)
AppliedTurn == Turn("system", <<"Document has been updated successfully.">>)
CancelledTurn == Turn("system", <<"Document update was cancelled.">>)
ThinkingText == <<"Thinking...">>
ErrorGeneratingText == <<"Error generating response: ">>

\* what the user types into the message box
UserInputs == {<<"hi">>}

\* what LLMManager.generate_response returns: a plain answer, a proposal that
\* starts with the phrase, a proposal with the phrase in mid-sentence
Responses ==
    { <<"p">>,
      <<Marker, Space, "a">>,
      <<Marker, Space, "b", Space>>,
      <<"p", Marker, Space, "a">> }

\* the outcomes of the call: a response text, or an exception
LLMOutcomes ==
    {[raised |-> FALSE, text |-> r, kind |-> "text"] : r \in Responses}
        \cup {[raised |-> TRUE, text |-> Empty, kind |-> "raises"]}

(***************************************************************************)
(* Uploaded files.                                                         *)
(***************************************************************************)
NoFile == "none"
Files == {"draft.md", "binary.txt"}
\* a Word file python-docx cannot open
WordFiles == {"broken.docx"}
\* uploaded_file.getvalue().decode("utf-8") raises for binary.txt; a Word
\* file is not decoded, and _extract_text_from_docx catches what it raises
FileDecodes(f) == f # "binary.txt"
\* _extract_text_from_docx, its except clause: the text it returns
ExtractionErrorText == <<"Error processing document: ">>
\* content: the decoded text, or what _extract_text_from_docx returned
FileContent(f) == IF f \in WordFiles THEN ExtractionErrorText ELSE <<"a">>
\* the import of the file fails: the text is undecodable, or the extraction fails
ImportFails(f) == f = "binary.txt" \/ f \in WordFiles

(***************************************************************************)
(* MarkdownCanvas: the undo history.                                       *)
(***************************************************************************)
\* the hardcoded limit of _save_to_history
HistoryLimit == 10

\* _save_to_history without its limit
SaveToHistoryUnbounded(content, hist) ==
    IF Truthy(content)
    THEN IF hist = <<>> \/ content # Last(hist)
         THEN Append(hist, content)
         ELSE hist
    ELSE hist

\* _save_to_history without the comparison with the last entry
SaveToHistoryNoDedup(content, hist) ==
    IF Truthy(content)
    THEN LastN(Append(hist, content), HistoryLimit)
    ELSE hist

\* MarkdownCanvas._save_to_history: the undo history it leaves, given the
\* current content and the history
SaveToHistory(content, hist) ==
    IF Truthy(content)
    THEN IF hist = <<>> \/ content # Last(hist)
         THEN LastN(Append(hist, content), HistoryLimit)
         ELSE hist
    ELSE hist

\* main.py installs handle_content_change as the canvas's on_content_change
HasContentChangeCallback == TRUE

\* a canvas that never calls on_content_change
NotifySkipped(notes, content) == notes

\* if self.on_content_change: self.on_content_change(content)
Notify(notes, content) ==
    IF HasContentChangeCallback THEN Append(notes, content) ELSE notes

(***************************************************************************)
(* ChatInterface.render: the loop over the chat history.                   *)
(***************************************************************************)
\* the turn is rendered with the Apply and Cancel buttons
ShowsButtons(turn) ==
    /\ turn.role = "assistant"
    /\ ContainsMarker(turn.content)
    /\ ~edit_confirmed
    /\ FindMarker(turn.content) # 0

\* pending_edit after the loop has rendered the turns 1..n
RECURSIVE RenderPending(_)
RenderPending(n) ==
    IF n = 0 THEN pending_edit
    ELSE IF ShowsButtons(chat_history[n])
         THEN SomeEdit(AfterMarker(chat_history[n].content))
         ELSE RenderPending(n - 1)

\* pending_edit after the whole loop
RenderedPending == RenderPending(Len(chat_history))

(***************************************************************************)
(* MarkdownCanvas.render: the parts every run passes through.              *)
(***************************************************************************)
CanvasNow ==
    [doc |-> markdown_content, hist |-> undo_history,
     last |-> last_uploaded_file, processed |-> file_processed,
     notes |-> <<>>]

\* the file uploader block: a file that is new or not yet processed is loaded
ProcessUpload(s, f) ==
    IF f # NoFile /\ (f # s.last \/ ~s.processed)
    THEN IF FileDecodes(f)
         THEN [doc |-> FileContent(f),
               hist |-> SaveToHistory(s.doc, s.hist),
               last |-> f,
               processed |-> TRUE,
               notes |-> Notify(s.notes, FileContent(f))]
         ELSE [s EXCEPT !.hist = SaveToHistory(s.doc, s.hist),
                        !.last = f,
                        !.processed = FALSE]
    ELSE s

\* _render_editor without the call of _save_to_history
EditorStepNoSave(s, new_content) ==
    IF new_content # s.doc
    THEN [s EXCEPT !.doc = new_content,
                   !.notes = Notify(s.notes, new_content)]
    ELSE s

\* _render_editor: the text area holds new_content
EditorStep(s, new_content) ==
    IF new_content # s.doc
    THEN [s EXCEPT !.hist = SaveToHistory(s.doc, s.hist),
                   !.doc = new_content,
                   !.notes = Notify(s.notes, new_content)]
    ELSE s

(***************************************************************************)
(* The LLM manager's conversation history.  main() builds a ChatInterface, *)
(* and with it an LLMManager, on every run of the script.                  *)
(***************************************************************************)
Message(role, content) == [role |-> role, content |-> content]

\* a message whose content is None
NoneMessage(role) == [role |-> role, content |-> Empty, is_none |-> TRUE]

\* ChatInterface.__init__: a new LLMManager, then the capabilities message
CapabilitiesMessage == Message("system", <<"You are an AI assistant">>)
RunStartHistory == <<CapabilitiesMessage>>

\* the number of characters a token stands for: "b" is a paragraph
CharCount(token) == IF token = "b" THEN 21 ELSE 1

RECURSIVE TextLength(_)
TextLength(text) ==
    IF text = <<>> THEN 0 ELSE CharCount(Head(text)) + TextLength(Tail(text))

\* main.handle_content_change: content.strip() and len(content) > 20
SignificantLength == 20
Significant(content) ==
    Truthy(Strip(content)) /\ TextLength(content) > SignificantLength

DocumentUpdatedMessage == Message("system", <<"The document has been updated.">>)

\* main.handle_content_change
HandleContentChange(history, content) ==
    IF Significant(content) THEN Append(history, DocumentUpdatedMessage) ELSE history

\* the history after on_content_change was called with each of notes in turn
RECURSIVE AfterNotes(_, _)
AfterNotes(history, notes) ==
    IF notes = <<>> THEN history
    ELSE AfterNotes(HandleContentChange(history, Head(notes)), Tail(notes))

\* a clear_conversation_history that keeps the messages
ClearConversationHistoryKept(history) == history

\* LLMManager.clear_conversation_history
ClearConversationHistory(history) == <<>>

\* generate_response, its last statements: the prompt and the response join
\* the history
HistoryAfterResponse(history, prompt, response) ==
    (IF Truthy(prompt) THEN Append(history, Message("user", prompt)) ELSE history)
        \o <<response>>

\* the history after process_user_input's call of generate_response
HistoryAfterCall(history, prompt, outcome) ==
    CASE outcome.kind = "text" ->
             HistoryAfterResponse(history, prompt, Message("assistant", outcome.text))
      [] outcome.kind = "none" ->
             HistoryAfterResponse(history, prompt, NoneMessage("assistant"))
      [] OTHER -> history

StoreCanvas(s) ==
    /\ markdown_content' = s.doc
    /\ undo_history' = s.hist
    /\ last_uploaded_file' = s.last
    /\ file_processed' = s.processed
    /\ notified' = s.notes
    /\ conversation_history' = AfterNotes(RunStartHistory, s.notes)

\* the event a run served.  idx: the turn whose button was pressed (apply,
\* cancel); the length of the undo history after _save_to_history's append
\* and before its limit is applied (new, edit, set_content); 0 otherwise.
\* before, hist_len: the document and the length of the undo history when
\* the run started.
Event(op, idx) ==
    [op |-> op, idx |-> idx, before |-> markdown_content,
     hist_len |-> Len(undo_history)]

\* the event of a run that called an external service; call: how the call ended
CallEvent(op, idx, call) ==
    [op |-> op, idx |-> idx, before |-> markdown_content,
     hist_len |-> Len(undo_history), call |-> call]

\* the length of the history after _save_to_history's append, before the limit
SaveLength(content, hist) ==
    IF Truthy(content) /\ (hist = <<>> \/ content # Last(hist))
    THEN Len(hist) + 1
    ELSE Len(hist)

(***************************************************************************)
(* The initial state: the session state after the first run of main.py.    *)
(***************************************************************************)
Init ==
    /\ markdown_content = Empty
    /\ undo_history = <<>>
    /\ chat_history = <<ConfigTurn>>
    /\ pending_edit = NoEdit
    /\ edit_confirmed = FALSE
    /\ uploaded_file = NoFile
    /\ last_uploaded_file = NoFile
    /\ file_processed = FALSE
    /\ pc = "idle"
    /\ event = [op |-> "init", idx |-> 0, before |-> Empty, hist_len |-> 0]
    /\ notified = <<>>
    /\ conversation_history = RunStartHistory
    /\ trail = <<>>
    /\ last_set = Empty
    /\ undone = 0

(***************************************************************************)
(* MarkdownCanvas: the canvas's widgets and methods.                       *)
(***************************************************************************)
\* the New button
NewDocumentRun ==
    /\ pc = "idle"
    /\ pending_edit' = RenderedPending
    /\ undo_history' = SaveToHistory(markdown_content, undo_history)
    /\ markdown_content' = Empty
    /\ notified' = <<>>
    /\ conversation_history' = RunStartHistory
    /\ pc' = "rerun"
    /\ event' = Event("new", SaveLength(markdown_content, undo_history))
    /\ UNCHANGED <<chat_history, edit_confirmed, uploaded_file,
                   last_uploaded_file, file_processed>>

\* pop(0) in place of pop(): the oldest entry
OldestContent(hist) == Head(hist)

\* previous_content = undo_history.pop(): the value popped
PreviousContent(hist) == Last(hist)

\* a pop that leaves the entry in the history
HistoryKept(hist) == hist

\* undo_history.pop(): the history left
RemainingHistory(hist) == Front(hist)

\* MarkdownCanvas._undo_last_change
UndoLastChange ==
    /\ pc = "idle"
    /\ pending_edit' = RenderedPending
    /\ IF undo_history # <<>>
       THEN /\ undo_history' = RemainingHistory(undo_history)
            /\ markdown_content' = PreviousContent(undo_history)
            /\ notified' = Notify(<<>>, PreviousContent(undo_history))
            /\ pc' = "rerun"
       ELSE /\ notified' = <<>>
            /\ UNCHANGED <<undo_history, markdown_content, pc>>
    /\ conversation_history' = AfterNotes(RunStartHistory, notified')
    /\ event' = Event("undo", 0)
    /\ UNCHANGED <<chat_history, edit_confirmed, uploaded_file,
                   last_uploaded_file, file_processed>>

\* the Undo button, disabled while the history is empty
UndoRun ==
    /\ undo_history # <<>>
    /\ UndoLastChange

\* the user puts file f into the uploader
UploadRun(f) ==
    /\ pc = "idle"
    /\ f # uploaded_file
    /\ uploaded_file' = f
    /\ pending_edit' = RenderedPending
    /\ StoreCanvas(ProcessUpload(CanvasNow, f))
    /\ event' = Event("upload", 0)
    /\ UNCHANGED <<chat_history, edit_confirmed, pc>>

\* the user takes the file out of the uploader
RemoveFileRun ==
    /\ pc = "idle"
    /\ uploaded_file # NoFile
    /\ uploaded_file' = NoFile
    /\ pending_edit' = RenderedPending
    /\ StoreCanvas(CanvasNow)
    /\ event' = Event("remove_file", 0)
    /\ UNCHANGED <<chat_history, edit_confirmed, pc>>

\* the user changes the text of the editor's text area to new_content
DirectEditRun(new_content) ==
    /\ pc = "idle"
    /\ new_content # markdown_content
    /\ pending_edit' = RenderedPending
    /\ StoreCanvas(EditorStep(ProcessUpload(CanvasNow, uploaded_file), new_content))
    /\ event' = Event("edit", SaveLength(markdown_content, undo_history))
    /\ UNCHANGED <<chat_history, edit_confirmed, uploaded_file, pc>>

\* MarkdownCanvas.get_content()
GetContent == markdown_content

\* set_content that never saves the current content
SetContentNoSave(content, save_history) ==
    /\ pc = "idle"
    /\ undo_history' = undo_history
    /\ markdown_content' = content
    /\ notified' = Notify(<<>>, content)
    /\ conversation_history' = AfterNotes(RunStartHistory, Notify(<<>>, content))
    /\ event' = Event(IF save_history THEN "set_content" ELSE "set_content_nosave",
                       Len(undo_history))
    /\ UNCHANGED <<chat_history, pending_edit, edit_confirmed,
                   uploaded_file, last_uploaded_file, file_processed, pc>>

\* MarkdownCanvas.set_content(content, save_history)
SetContent(content, save_history) ==
    /\ pc = "idle"
    /\ undo_history' = IF save_history
                       THEN SaveToHistory(markdown_content, undo_history)
                       ELSE undo_history
    /\ markdown_content' = content
    /\ notified' = Notify(<<>>, content)
    /\ conversation_history' = AfterNotes(RunStartHistory, Notify(<<>>, content))
    /\ event' = Event(IF save_history THEN "set_content" ELSE "set_content_nosave",
                       IF save_history
                       THEN SaveLength(markdown_content, undo_history)
                       ELSE Len(undo_history))
    /\ UNCHANGED <<chat_history, pending_edit, edit_confirmed,
                   uploaded_file, last_uploaded_file, file_processed, pc>>

\* the run Streamlit starts after st.rerun(): no widget fired
Rerun ==
    /\ pc = "rerun"
    /\ pending_edit' = RenderedPending
    /\ StoreCanvas(ProcessUpload(CanvasNow, uploaded_file))
    /\ pc' = "idle"
    /\ event' = Event("rerun", 0)
    /\ UNCHANGED <<chat_history, edit_confirmed, uploaded_file>>

(***************************************************************************)
(* ChatInterface: the sidebar's widgets.                                   *)
(***************************************************************************)
\* main.py stores the canvas in st.session_state.markdown_canvas before it renders
CanvasRegistered == TRUE

\* an Apply branch that leaves the document alone
AppliedContentKept(pending, doc) == doc

\* the document after the Apply branch of _render_edit_confirmation_buttons
AppliedContent(pending, doc) ==
    IF CanvasRegistered THEN pending.content ELSE doc

\* an Apply branch that overwrites the newest turn with its confirmation
AppliedChatOverwriting(chat) ==
    IF chat = <<>> THEN <<AppliedTurn>> ELSE Front(chat) \o <<AppliedTurn>>

\* the chat history after the Apply branch
AppliedChat(chat) ==
    IF CanvasRegistered THEN Append(chat, AppliedTurn) ELSE chat

\* pending_edit after the Apply branch
AppliedPending(pending) ==
    IF CanvasRegistered THEN NoEdit ELSE pending

\* the Apply Changes button under turn i
ApplyRun(i) ==
    /\ pc = "idle"
    /\ i \in 1..Len(chat_history)
    /\ ShowsButtons(chat_history[i])
    /\ Len(chat_history) < MaxChat
    /\ markdown_content' = AppliedContent(RenderPending(i), markdown_content)
    /\ chat_history' = AppliedChat(chat_history)
    /\ pending_edit' = AppliedPending(RenderPending(i))
    /\ notified' = <<>>
    /\ conversation_history' = RunStartHistory
    /\ pc' = "rerun"
    /\ event' = Event("apply", i)
    /\ UNCHANGED <<undo_history, edit_confirmed, uploaded_file,
                   last_uploaded_file, file_processed>>

\* a Cancel branch that does not clear pending_edit
CancelledPendingKept(pending) == pending

\* pending_edit after the Cancel branch
CancelledPending(pending) == NoEdit

\* the Cancel button under turn i
CancelRun(i) ==
    /\ pc = "idle"
    /\ i \in 1..Len(chat_history)
    /\ ShowsButtons(chat_history[i])
    /\ Len(chat_history) < MaxChat
    /\ chat_history' = Append(chat_history, CancelledTurn)
    /\ pending_edit' = CancelledPending(RenderPending(i))
    /\ notified' = <<>>
    /\ conversation_history' = RunStartHistory
    /\ pc' = "rerun"
    /\ event' = Event("cancel", i)
    /\ UNCHANGED <<markdown_content, undo_history, edit_confirmed,
                   uploaded_file, last_uploaded_file, file_processed>>

\* the Clear Chat button: clear_chat_history, then _add_config_info_message
ClearChatRun ==
    /\ pc = "idle"
    /\ pending_edit' = RenderedPending
    /\ chat_history' = <<ConfigTurn>>
    /\ notified' = <<>>
    /\ conversation_history' = ClearConversationHistory(RunStartHistory)
    /\ pc' = "rerun"
    /\ event' = Event("clear_chat", 0)
    /\ UNCHANGED <<markdown_content, undo_history, edit_confirmed,
                   uploaded_file, last_uploaded_file, file_processed>>

\* main.py builds ChatInterface(on_research_request=handle_research_request)
OnResearchRequest == TRUE

ResearchCommand == "/research"
ResearchingText == <<"Researching... please wait.">>
ErrorDuringResearchText == <<"Error during research: ">>

\* user_input.startswith("/research ")
StartsWithResearch(user_input) ==
    /\ Len(user_input) >= 2
    /\ user_input[1] = ResearchCommand
    /\ user_input[2] = Space

\* the text after the command prefix, not stripped
ResearchQueryUntrimmed(user_input) == SubSeq(user_input, 3, Len(user_input))

\* user_input[len("/research "):].strip()
ResearchQuery(user_input) == Strip(SubSeq(user_input, 3, Len(user_input)))

\* a process_user_input that never takes the research branch
NeverResearchPath(user_input) == FALSE

\* process_user_input takes the research branch
TakesResearchPath(user_input) ==
    /\ StartsWithResearch(user_input)
    /\ OnResearchRequest
    /\ Truthy(ResearchQuery(user_input))

\* a process_user_input that writes the response text whatever happened
AssistantTurnUnguarded(outcome) == Turn("assistant", outcome.text)

\* process_user_input, the LLM path: the assistant turn written at temp_idx
AssistantTurn(outcome) ==
    IF outcome.raised
    THEN Turn("assistant", ErrorGeneratingText)
    ELSE IF StartsWithMarker(outcome.text) /\ FindMarker(outcome.text) >= 1
         THEN [role |-> "assistant", content |-> outcome.text, has_edit |-> TRUE]
         ELSE Turn("assistant", outcome.text)

\* process_user_input, the LLM path: pending_edit when it returns
PendingAfterResponse(pending, outcome) ==
    IF ~outcome.raised /\ StartsWithMarker(outcome.text) /\ FindMarker(outcome.text) >= 1
    THEN SomeEdit(AfterMarker(outcome.text))
    ELSE pending

(***************************************************************************)
(* The LLM request: process_user_input's system prompt and research mode,  *)
(* generate_response's tools and tool choice.  A phrase the code looks for *)
(* is a token of its own; the marker phrase "I'll update the document      *)
(* with:" has "update the document" inside it and the command "/research"  *)
(* has "research" inside it.                                               *)
(***************************************************************************)
\* phrase in token
TokenHas(token, phrase) ==
    \/ token = phrase
    \/ token = Marker /\ phrase = "update the document"
    \/ token = "/research" /\ phrase = "research"

\* phrase in text
PhraseIn(phrase, text) == \E i \in 1..Len(text) : TokenHas(text[i], phrase)

\* str.lower()
Lower(token) == IF token = "Research" THEN "research" ELSE token
LowerText(text) == [i \in 1..Len(text) |-> Lower(text[i])]

\* _should_use_research_mode: some of its indicators
ResearchIndicators == {"research", "in-depth", "comprehensive"}
ShouldUseResearchMode(user_input) ==
    \E indicator \in ResearchIndicators : PhraseIn(indicator, LowerText(user_input))

\* process_user_input: the two system prompts
DocumentPrompt(current_document) ==
    <<"You are a helpful AI assistant that helps the user work with documents.">>
        \o current_document
        \o << "When asked to edit, summarize or ", "add to the document",
              ", provide the exact text. Begin your response with ", Marker,
              "For in-depth research questions, use the research_with_perplexity function" >>

NewDocumentPrompt ==
    << "You are a helpful AI assistant. The user is working on a new document.",
       "Begin your response with ", Marker,
       "For in-depth research questions, use the research_with_perplexity function" >>

SystemPrompt(current_document) ==
    IF Truthy(current_document) THEN DocumentPrompt(current_document)
    ELSE NewDocumentPrompt

\* generate_response: is_document_request
DocumentPhrases ==
    {"summarize or add the content", "add to the document", "update the document"}
IsDocumentRequest(system_prompt) ==
    /\ Truthy(system_prompt)
    /\ \E phrase \in DocumentPhrases : PhraseIn(phrase, system_prompt)

\* generate_response: tools (PERPLEXITY_SEARCH_FUNCTION, PERPLEXITY_RESEARCH_FUNCTION)
PerplexityTools == <<"search_with_perplexity", "research_with_perplexity">>
Tools(perplexity, system_prompt) ==
    IF perplexity /\ ~IsDocumentRequest(system_prompt) THEN PerplexityTools ELSE <<>>

\* generate_response: some of its search keywords
SearchKeywords == {"news", "latest", "what is"}
HasSearchKeyword(prompt) ==
    \E keyword \in SearchKeywords : PhraseIn(keyword, LowerText(prompt))

\* generate_response: tool_choice, the name of the forced function or "auto"
ToolChoice(prompt, system_prompt, research_mode, perplexity) ==
    IF research_mode /\ perplexity /\ ~IsDocumentRequest(system_prompt)
    THEN "research_with_perplexity"
    ELSE IF /\ Truthy(prompt)
            /\ perplexity
            /\ Tools(perplexity, system_prompt) # <<>>
            /\ ~IsDocumentRequest(system_prompt)
            /\ HasSearchKeyword(prompt)
         THEN "search_with_perplexity"
         ELSE "auto"

\* client.chat.completions.create(tools=tools if tools else None,
\* tool_choice=tool_choice if tools else None); tools = <<>> stands for None
CompletionRequest(prompt, system_prompt, research_mode, perplexity) ==
    LET tools == Tools(perplexity, system_prompt)
    IN  [tools |-> tools,
         tool_choice |-> IF tools # <<>>
                         THEN ToolChoice(prompt, system_prompt, research_mode, perplexity)
                         ELSE "None"]

\* USE_PERPLEXITY is "true"; PERPLEXITY_API_KEY is set (LLMManager.perplexity)
LLMEnvironments == [use_perplexity : BOOLEAN, perplexity : BOOLEAN]

\* neither USE_PERPLEXITY nor PERPLEXITY_API_KEY is set
PlainLLMEnvironments == {[use_perplexity |-> FALSE, perplexity |-> FALSE]}

\* process_user_input: the request its call of generate_response issues
LLMRequest(user_input, current_document, llm_env) ==
    CompletionRequest(user_input, SystemPrompt(current_document),
                      llm_env.use_perplexity /\ ShouldUseResearchMode(user_input),
                      llm_env.perplexity)

\* what a send run did: the input, the environment, the request, the outcome
SendCall(user_input, outcome, llm_env) ==
    [raised |-> outcome.raised, text |-> outcome.text, kind |-> outcome.kind,
     input |-> user_input, env |-> llm_env,
     request |-> LLMRequest(user_input, markdown_content, llm_env)]

(***************************************************************************)
(* LLMManager.generate_response against a service that answers or fails.   *)
(***************************************************************************)
\* return f"Error: {str(e)}": how the text starts
ErrorText == <<"Error: ">>

\* message.content of a completion: a text or None
ApiContents ==
    {[is_none |-> FALSE, text |-> t] : t \in {<<"p">>, Empty}}
        \cup {[is_none |-> TRUE, text |-> Empty]}

\* how the service behaves during one call.  first: the first completion
\* raises, answers with a content, or answers with tool calls; args_ok:
\* json.loads accepts the arguments of the tool calls; second: the completion
\* after the tool calls raises or answers; content: the content of the
\* completion that answers
ApiBehaviour(first, args_ok, second, content) ==
    [first |-> first, args_ok |-> args_ok, second |-> second, content |-> content]
ApiBehaviours ==
    {ApiBehaviour("raises", TRUE, "raises", [is_none |-> TRUE, text |-> Empty]),
     ApiBehaviour("tool_calls", FALSE, "raises", [is_none |-> TRUE, text |-> Empty]),
     ApiBehaviour("tool_calls", TRUE, "raises", [is_none |-> TRUE, text |-> Empty])}
        \cup {ApiBehaviour("content", TRUE, "raises", c) : c \in ApiContents}
        \cup {ApiBehaviour("tool_calls", TRUE, "content", c) : c \in ApiContents}

\* the try block comes to its end with response_text
Answers(api) ==
    \/ api.first = "content"
    \/ api.first = "tool_calls" /\ api.args_ok /\ api.second = "content"

\* the message add_message("assistant", response_text) appends
AssistantMessage(content) ==
    IF content.is_none THEN NoneMessage("assistant")
    ELSE Message("assistant", content.text)

\* a generate_response whose except clause comes after the prompt was added
GeneratedAfterPrompt(history, prompt, api) ==
    IF Answers(api)
    THEN [failed |-> FALSE, raised |-> FALSE, result |-> api.content,
          history |-> HistoryAfterResponse(history, prompt, AssistantMessage(api.content))]
    ELSE [failed |-> TRUE, raised |-> FALSE,
          result |-> [is_none |-> FALSE, text |-> ErrorText \o <<"str(e)">>],
          history |-> Append(history, Message("user", prompt))]

\* LLMManager.generate_response: what it returns and the history it leaves
Generated(history, prompt, api) ==
    IF Answers(api)
    THEN [failed |-> FALSE, raised |-> FALSE, result |-> api.content,
          history |-> HistoryAfterResponse(history, prompt, AssistantMessage(api.content))]
    ELSE [failed |-> TRUE, raised |-> FALSE,
          result |-> [is_none |-> FALSE, text |-> ErrorText \o <<"str(e)">>],
          history |-> history]

\* the system prompts a caller passes: none, process_user_input's, a plain one
GenerateSystemPrompts ==
    {Empty, NewDocumentPrompt, <<"You are a helpful assistant.">>}

\* the histories a call starts with
GenerateHistories ==
    {<<>>, RunStartHistory, Append(RunStartHistory, DocumentUpdatedMessage)}

\* one call of generate_response(prompt, system_prompt, research_mode)
GenerateCall(prompt, system_prompt, research_mode, perplexity, api, max_history) ==
    LET request == CompletionRequest(prompt, system_prompt, research_mode, perplexity)
        out == Generated(conversation_history, prompt, api)
    IN  /\ pc = "idle"
        /\ api.first = "tool_calls" => request.tools # <<>>
        /\ Len(conversation_history) + 2 <= max_history
        /\ conversation_history' = out.history
        /\ event' = CallEvent("generate", 0,
                               [prompt |-> prompt, api |-> api, request |-> request,
                                history |-> conversation_history,
                                failed |-> out.failed, raised |-> out.raised,
                                result |-> out.result])
        /\ UNCHANGED <<markdown_content, undo_history, chat_history, pending_edit,
                       edit_confirmed, uploaded_file, last_uploaded_file,
                       file_processed, pc, notified>>

\* process_user_input: the user turn and the placeholder turn are appended
WithPlaceholder(chat, user_content, placeholder) ==
    chat \o <<Turn("user", user_content), Turn("assistant", placeholder)>>

\* temp_idx, counted from 1: the place of the placeholder turn
TempIdx(chat) == Len(chat) + 2

\* a process_user_input that leaves the placeholder turn as it is
TurnNotWritten(chat, idx, turn) == chat

\* chat_history[temp_idx]["content"] = ... (and ["has_edit"] = True)
WriteTurn(chat, idx, turn) == [chat EXCEPT ![idx] = turn]

\* what the message box holds when nothing was typed, or only whitespace
BlankInputs == {Empty, <<Space>>, <<Space, Space>>}

\* if user_input and user_input.strip()
SendAccepts(user_input) == Truthy(user_input) /\ Truthy(Strip(user_input))

\* the Send button with a message it does not accept: the handler does
\* nothing and the run goes on to render the canvas
BlankSendRun(user_input) ==
    /\ pc = "idle"
    /\ ~SendAccepts(user_input)
    /\ pending_edit' = RenderedPending
    /\ StoreCanvas(ProcessUpload(CanvasNow, uploaded_file))
    /\ event' = Event("blank_send", 0)
    /\ UNCHANGED <<chat_history, edit_confirmed, uploaded_file, pc>>

\* the Send button with a non-blank message; the LLM call ends in outcome
SendRun(user_input, outcome, llm_env) ==
    /\ pc = "idle"
    /\ SendAccepts(user_input)
    /\ ~TakesResearchPath(user_input)
    /\ Len(chat_history) + 2 <= MaxChat
    /\ chat_history' = WriteTurn(WithPlaceholder(chat_history, user_input, ThinkingText),
                                 TempIdx(chat_history), AssistantTurn(outcome))
    /\ pending_edit' = PendingAfterResponse(RenderedPending, outcome)
    /\ notified' = <<>>
    /\ conversation_history' = HistoryAfterCall(RunStartHistory, user_input, outcome)
    /\ pc' = "rerun"
    /\ event' = CallEvent("send", 0, SendCall(user_input, outcome, llm_env))
    /\ UNCHANGED <<markdown_content, undo_history, edit_confirmed,
                   uploaded_file, last_uploaded_file, file_processed>>

(***************************************************************************)
(* The research relay: WebhookManager and main.handle_research_request.    *)
(* A JSON value the webhook answers with is None, a list, or a dict; a     *)
(* dict is a function from its keys to texts.                              *)
(***************************************************************************)
JsonNull == [type |-> "null"]
JsonList == [type |-> "list"]
JsonDict(d) == [type |-> "dict", value |-> d]
EmptyDict == <<>>

\* "\n\n## Research Results\n\n"
ResearchHeading == "H"

\* what requests.post, raise_for_status and response.json() end in
WebhookFailures == {"timeout", "ssl", "connection", "http"}
WebhookBodies ==
    { JsonDict([content |-> <<"r">>]),
      JsonDict([content |-> Empty]),
      JsonDict([status |-> <<"ok">>]),
      JsonDict([error |-> <<"workflow failed">>]),
      JsonDict([error |-> <<"workflow failed">>, content |-> <<"r">>]),
      JsonDict(EmptyDict),
      JsonNull,
      JsonList }
WebhookResults ==
    {[kind |-> k, body |-> JsonNull] : k \in WebhookFailures \cup {"request", "invalid_json"}}
        \cup {[kind |-> "json", body |-> b] : b \in WebhookBodies}

\* the error text of each except clause of send_research_request
RequestErrorText(kind) ==
    CASE kind = "timeout" -> <<"Request timeout. The n8n webhook took too long to respond.">>
      [] kind = "ssl" -> <<"SSL verification failed: ">>
      [] kind = "connection" -> <<"Connection error. Could not connect to the n8n webhook.">>
      [] kind = "http" -> <<"HTTP error: ">>
      [] kind = "request" -> <<"request failed">>
      [] OTHER -> <<"Invalid JSON response">>

\* WebhookManager.send_research_request, the webhook URL being set or not
SendResearchRequest(url_set, result) ==
    IF ~url_set THEN JsonDict([error |-> <<"N8N_WEBHOOK_URL not configured">>])
    ELSE IF result.kind = "json" THEN result.body
    ELSE JsonDict([error |-> RequestErrorText(result.kind)])

\* the truth value of a JSON value
JsonTruthy(j) ==
    \/ j.type = "list"
    \/ j.type = "dict" /\ j.value # EmptyDict

\* a process_webhook_response that takes every response for a success
ProcessWebhookResponseTrusting(response_data) ==
    [success |-> TRUE, error |-> Empty, data |-> response_data]

\* WebhookManager.process_webhook_response
ProcessWebhookResponse(response_data) ==
    IF ~JsonTruthy(response_data)
    THEN [success |-> FALSE, error |-> <<"Empty response from webhook">>, data |-> JsonNull]
    ELSE IF response_data.type = "dict" /\ "error" \in DOMAIN response_data.value
    THEN [success |-> FALSE, error |-> response_data.value.error, data |-> JsonNull]
    ELSE [success |-> TRUE, error |-> Empty, data |-> response_data]

\* the environment a script run reads: USE_N8N and N8N_WEBHOOK_URL
Environments == [use_n8n : BOOLEAN, url_set : BOOLEAN]

ResearchErrorPrefix == "Research error: "
ResearchDisabledText == <<"Research via n8n is currently disabled.">>
UrlNotConfiguredText == <<"Error: N8N webhook URL is not configured.">>
ResearchAddedText == <<"Research complete! Added results to your document.">>
NoContentText == <<"Research complete, but no content was returned.">>
NoCanvasText == <<"Research complete, but couldn't update the document.">>
NoDataText == <<"Research complete, but no data was returned.">>

\* what a call of the research handler ends in: it returns text or raises,
\* and leaves the document doc
Returned(text, doc) == [raised |-> FALSE, text |-> text, doc |-> doc]
Raised(doc) == [raised |-> TRUE, text |-> Empty, doc |-> doc]

\* a handler that appends the research content without the heading
ResearchAppendedBare(doc, research_content) == doc \o research_content

\* current_content + "\n\n## Research Results\n\n" + research_content
ResearchAppended(doc, research_content) ==
    doc \o <<ResearchHeading>> \o research_content

\* the part of handle_research_request that follows a successful response
HandleResearchData(data, doc) ==
    IF ~JsonTruthy(data) THEN Returned(NoDataText, doc)
    ELSE IF ~CanvasRegistered THEN Returned(NoCanvasText, doc)
    ELSE IF data.type # "dict" THEN Raised(doc)
    ELSE LET research_content ==
                 IF "content" \in DOMAIN data.value THEN data.value.content ELSE Empty
         IN  IF Truthy(research_content)
             THEN Returned(ResearchAddedText, ResearchAppended(doc, research_content))
             ELSE Returned(NoContentText, doc)

\* main.handle_research_request(query), the webhook call ending in result
HandleResearchRequest(env, result, doc) ==
    IF ~env.use_n8n THEN Returned(ResearchDisabledText, doc)
    ELSE IF ~env.url_set THEN Returned(UrlNotConfiguredText, doc)
    ELSE LET processed_response ==
                 ProcessWebhookResponse(SendResearchRequest(env.url_set, result))
         IN  IF ~processed_response.success
             THEN Returned(<<ResearchErrorPrefix>> \o processed_response.error, doc)
             ELSE HandleResearchData(processed_response.data, doc)

\* the research branch of process_user_input: the Send button with the
\* message "/research <query>", the webhook call ending in result
ResearchRun(user_input, env, result) ==
    LET research_query == ResearchQuery(user_input)
        out == HandleResearchRequest(env, result, markdown_content)
    IN  /\ pc = "idle"
        /\ SendAccepts(user_input)
        /\ TakesResearchPath(user_input)
        /\ Len(chat_history) + 2 <= MaxChat
        /\ Len(out.doc) <= MaxDoc
        /\ pending_edit' = NoEdit
        /\ chat_history' =
               WriteTurn(WithPlaceholder(chat_history, <<"Research: ">> \o research_query,
                                         ResearchingText),
                         TempIdx(chat_history),
                         Turn("assistant", IF out.raised THEN ErrorDuringResearchText
                                                         ELSE out.text))
        /\ markdown_content' = out.doc
        /\ notified' = <<>>
        /\ conversation_history' = RunStartHistory
        /\ pc' = "rerun"
        /\ event' = CallEvent("research", 0,
                               [input |-> user_input, env |-> env,
                                result |-> result, raised |-> out.raised])
        /\ UNCHANGED <<undo_history, edit_confirmed, uploaded_file,
                       last_uploaded_file, file_processed>>

\* what LLMManager.generate_response ends in: a text (an empty one too), its
\* own "Error: ..." text after an exception it caught, None, or an exception
GenerateResults ==
    {[kind |-> "text", text |-> r] : r \in {<<"p">>, <<Marker, Space, "a">>, Empty}}
        \cup {[kind |-> k, text |-> Empty] : k \in {"error_text", "none", "raises"}}

\* the try block of process_user_input: None has no startswith, which raises
TryOutcome(generated) ==
    CASE generated.kind = "text" ->
             [raised |-> FALSE, text |-> generated.text, kind |-> generated.kind]
      [] generated.kind = "error_text" ->
             [raised |-> FALSE, text |-> ErrorText, kind |-> generated.kind]
      [] OTHER ->
             [raised |-> TRUE, text |-> Empty, kind |-> generated.kind]

(***************************************************************************)
(* The application: every widget of the page.                              *)
(***************************************************************************)
Next ==
    \/ (\E i \in 1..MaxChat : ApplyRun(i)) /\ UNCHANGED auxVars
    \/ (\E i \in 1..MaxChat : CancelRun(i)) /\ UNCHANGED auxVars
    \/ ClearChatRun /\ UNCHANGED auxVars
    \/ (\E u \in UserInputs, o \in LLMOutcomes, e \in PlainLLMEnvironments :
           SendRun(u, o, e))
          /\ UNCHANGED auxVars
    \/ (\E u \in BlankInputs : BlankSendRun(u)) /\ UNCHANGED auxVars
    \/ NewDocumentRun /\ UNCHANGED auxVars
    \/ UndoRun /\ UNCHANGED auxVars
    \/ (\E f \in Files : UploadRun(f)) /\ UNCHANGED auxVars
    \/ RemoveFileRun /\ UNCHANGED auxVars
    \/ (\E c \in Contents : DirectEditRun(c)) /\ UNCHANGED auxVars
    \/ Rerun /\ UNCHANGED auxVars

Spec == Init /\ [][Next]_vars

(***************************************************************************)
(* The canvas alone: its widgets and its methods, called in any order.     *)
(***************************************************************************)
NextCanvas ==
    \/ NewDocumentRun /\ UNCHANGED auxVars
    \/ UndoLastChange /\ UNCHANGED auxVars
    \/ (\E f \in Files : UploadRun(f)) /\ UNCHANGED auxVars
    \/ RemoveFileRun /\ UNCHANGED auxVars
    \/ (\E c \in Contents : DirectEditRun(c)) /\ UNCHANGED auxVars
    \/ \E c \in Contents, save \in BOOLEAN :
          SetContent(c, save) /\ last_set' = c /\ UNCHANGED <<trail, undone>>
    \/ Rerun /\ UNCHANGED auxVars

SpecCanvas == Init /\ [][NextCanvas]_vars

(***************************************************************************)
(* The document store driven by set_content calls, then by undo calls.     *)
(* trail records the contents the calls replaced, a content equal to the   *)
(* one recorded last not being recorded again.                             *)
(***************************************************************************)
ScenarioSet(content, max_trail) ==
    /\ undone = 0
    /\ Len(trail) < max_trail
    /\ SetContent(content, TRUE)
    /\ trail' = IF trail # <<>> /\ Last(trail) = markdown_content
                THEN trail
                ELSE Append(trail, markdown_content)
    /\ last_set' = content
    /\ UNCHANGED undone

ScenarioUndo(max_undos) ==
    /\ undone < max_undos
    /\ UndoLastChange
    /\ undone' = undone + 1
    /\ UNCHANGED <<trail, last_set>>

ScenarioRerun == Rerun /\ UNCHANGED auxVars

NextSetUndo ==
    \/ \E c \in Contents : ScenarioSet(c, MaxTrail)
    \/ ScenarioUndo(MaxUndos)
    \/ ScenarioRerun

SpecSetUndo == Init /\ [][NextSetUndo]_vars

(***************************************************************************)
(* The round trip set_content, set_content, undo, undo, from any content   *)
(* and any undo history the canvas can hold.                               *)
(***************************************************************************)
RoundTripContents == {Empty, <<"a">>, <<"b">>, <<"c">>}

\* the entries 1..n of the history that alternates x and y
RECURSIVE Alternate(_, _, _)
Alternate(x, y, n) ==
    IF n = 0 THEN <<>> ELSE Append(Alternate(y, x, n - 1), x)

\* undo histories of the canvas: non-empty contents, no two neighbours
\* equal, at most HistoryLimit entries
RoundTripHistories ==
    {<<>>}
      \cup {<<x>> : x \in RoundTripContents \ {Empty}}
      \cup {Alternate(x, y, n) :
              x \in {<<"a">>, <<"b">>}, y \in {<<"c">>},
              n \in {2, HistoryLimit - 1, HistoryLimit}}

InitRoundTrip ==
    /\ markdown_content \in RoundTripContents
    /\ undo_history \in RoundTripHistories
    /\ chat_history = <<ConfigTurn>>
    /\ pending_edit = NoEdit
    /\ edit_confirmed = FALSE
    /\ uploaded_file = NoFile
    /\ last_uploaded_file = NoFile
    /\ file_processed = FALSE
    /\ pc = "idle"
    /\ event = [op |-> "init", idx |-> 0, before |-> Empty, hist_len |-> 0]
    /\ notified = <<>>
    /\ conversation_history = RunStartHistory
    /\ trail = <<>>
    /\ last_set = markdown_content
    /\ undone = 0

NextRoundTrip ==
    \/ \E c \in RoundTripContents : ScenarioSet(c, 2)
    \/ ScenarioUndo(2)
    \/ ScenarioRerun

SpecRoundTrip == InitRoundTrip /\ [][NextRoundTrip]_vars

(***************************************************************************)
(* One request/response cycle over every short response text, and the      *)
(* render that follows it.                                                 *)
(***************************************************************************)
ClassifyTokens == {Marker, Space, "a"}

\* the response texts of at most MaxText tokens
ClassifyTexts == UNION {[1..n -> ClassifyTokens] : n \in 0..MaxText}

ClassifySend(text) ==
    /\ Len(chat_history) = 1
    /\ \E e \in LLMEnvironments :
           SendRun(<<"hi">>, [raised |-> FALSE, text |-> text, kind |-> "text"], e)
    /\ UNCHANGED auxVars

ClassifyRerun == Rerun /\ UNCHANGED auxVars

NextClassify ==
    \/ \E text \in ClassifyTexts : ClassifySend(text)
    \/ ClassifyRerun

SpecClassify == Init /\ [][NextClassify]_vars

(***************************************************************************)
(* Request/response cycles with the research command: the message box,     *)
(* the proposal buttons and the file uploader.                             *)
(***************************************************************************)
ResearchInputs ==
    { <<"hi">>,
      <<ResearchCommand, Space, "q">>,
      <<ResearchCommand, Space, Space, "q", Space>>,
      <<ResearchCommand, Space, Space>>,
      <<"latest", Space, "Research">> }

NextResearch ==
    \/ (\E u \in ResearchInputs, g \in GenerateResults, e \in LLMEnvironments :
           SendRun(u, TryOutcome(g), e))
          /\ UNCHANGED auxVars
    \/ (\E u \in ResearchInputs, env \in Environments, result \in WebhookResults :
           ResearchRun(u, env, result)) /\ UNCHANGED auxVars
    \/ (\E i \in 1..MaxChat : ApplyRun(i)) /\ UNCHANGED auxVars
    \/ (\E i \in 1..MaxChat : CancelRun(i)) /\ UNCHANGED auxVars
    \/ UploadRun("draft.md") /\ UNCHANGED auxVars
    \/ Rerun /\ UNCHANGED auxVars

SpecResearch == Init /\ [][NextResearch]_vars

(***************************************************************************)
(* The uploader: text files and Word files that load or fail to load.      *)
(***************************************************************************)
NextImport ==
    \/ (\E f \in Files \cup WordFiles : UploadRun(f)) /\ UNCHANGED auxVars
    \/ RemoveFileRun /\ UNCHANGED auxVars
    \/ NewDocumentRun /\ UNCHANGED auxVars
    \/ UndoRun /\ UNCHANGED auxVars
    \/ Rerun /\ UNCHANGED auxVars

SpecImport == Init /\ [][NextImport]_vars

(***************************************************************************)
(* MarkdownProcessor: the table of contents of a text.  A text is a        *)
(* sequence of lines; the line [hashes |-> n, text |-> t] is n "#"         *)
(* characters, a space and t, or t alone when n = 0.                       *)
(***************************************************************************)
MaxLines == 3

Line(hashes, text) == [hashes |-> hashes, text |-> text]

TocLines ==
    {Line(1, "Intro"), Line(2, "Intro"), Line(3, "Next Steps"),
     Line(0, "plain"), Line(7, "Deep")}

\* every text of at most max_lines lines
TocTexts(max_lines) == UNION {[1..n -> TocLines] : n \in 0..max_lines}

\* re.match(r'^(#{1,6})\s+(.+)$', line)
MatchesHeader(line) == line.hashes >= 1 /\ line.hashes <= 6

\* extract_headers: the level and the text of every header line, in order
RECURSIVE ExtractHeaders(_)
ExtractHeaders(markdown_text) ==
    IF markdown_text = <<>> THEN <<>>
    ELSE LET line == Head(markdown_text)
             rest == ExtractHeaders(Tail(markdown_text))
         IN  IF MatchesHeader(line)
             THEN <<[level |-> line.hashes, text |-> line.text]>> \o rest
             ELSE rest

\* headers.index(header), counted from 1: the first header equal to it
HeaderIndex(headers, header) ==
    CHOOSE i \in 1..Len(headers) :
        /\ headers[i] = header
        /\ \A j \in 1..(i - 1) : headers[j] # header

\* header["text"].lower().replace(" ", "-")
LinkTarget(text) ==
    CASE text = "Intro" -> "intro"
      [] text = "Next Steps" -> "next-steps"
      [] OTHER -> text

\* f"{indent}- [{link_text}](#{link_target})"
TocEntry(header) ==
    [indent |-> 2 * (header.level - 1), link_text |-> header.text,
     link_target |-> LinkTarget(header.text)]

TocTitle == [indent |-> 0, link_text |-> "# Table of Contents", link_target |-> ""]

\* the loop of generate_table_of_contents over headers[k..]
RECURSIVE TocEntries(_, _)
TocEntries(headers, k) ==
    IF k > Len(headers) THEN <<>>
    ELSE IF headers[k].level = 1 /\ HeaderIndex(headers, headers[k]) = 1
         THEN TocEntries(headers, k + 1)
         ELSE <<TocEntry(headers[k])>> \o TocEntries(headers, k + 1)

\* generate_table_of_contents: the lines of the string it returns, <<>> for ""
GenerateTableOfContents(markdown_text) ==
    LET headers == ExtractHeaders(markdown_text)
    IN  IF headers = <<>> THEN <<>> ELSE <<TocTitle>> \o TocEntries(headers, 1)

\* one call of generate_table_of_contents
TocCall(markdown_text) ==
    /\ pc = "idle"
    /\ event' = CallEvent("toc", 0,
                           [text |-> markdown_text,
                            result |-> GenerateTableOfContents(markdown_text)])
    /\ UNCHANGED <<markdown_content, undo_history, chat_history, pending_edit,
                   edit_confirmed, uploaded_file, last_uploaded_file,
                   file_processed, pc, notified, conversation_history>>

NextToc == \E t \in TocTexts(MaxLines) : TocCall(t) /\ UNCHANGED auxVars

SpecToc == Init /\ [][NextToc]_vars

(***************************************************************************)
(* One LLM manager: generate_response called again and again, with the     *)
(* prompts process_user_input passes on.                                   *)
(***************************************************************************)
MaxHistory == 5

GeneratePrompts == {<<"hi">>, <<"latest", Space, "research">>}

InitGenerate ==
    /\ markdown_content = Empty
    /\ undo_history = <<>>
    /\ chat_history = <<ConfigTurn>>
    /\ pending_edit = NoEdit
    /\ edit_confirmed = FALSE
    /\ uploaded_file = NoFile
    /\ last_uploaded_file = NoFile
    /\ file_processed = FALSE
    /\ pc = "idle"
    /\ event = [op |-> "init", idx |-> 0, before |-> Empty, hist_len |-> 0]
    /\ notified = <<>>
    /\ conversation_history \in GenerateHistories
    /\ trail = <<>>
    /\ last_set = Empty
    /\ undone = 0

NextGenerate ==
    \E prompt \in GeneratePrompts, system_prompt \in GenerateSystemPrompts,
       research_mode \in BOOLEAN, perplexity \in BOOLEAN, api \in ApiBehaviours :
        /\ GenerateCall(prompt, system_prompt, research_mode, perplexity, api, MaxHistory)
        /\ UNCHANGED auxVars

SpecGenerate == InitGenerate /\ [][NextGenerate]_vars

(***************************************************************************)
(* Properties.                                                             *)
(***************************************************************************)

C2_ApplyPushesUndo ==
    [][(event'.op = "apply" /\ Truthy(markdown_content)) =>
         /\ undo_history' # <<>>
         /\ Last(undo_history') = markdown_content]_vars

C4_OnlyFreshTurnCreatesProposal ==
    [][(pending_edit = NoEdit /\ event.op # "send" /\ event'.op # "send")
          => pending_edit' = NoEdit]_vars

\* C5: the undo history never holds more than 10 entries, and a push that
\* appends while it holds 10 drops the oldest entry and keeps the other 9 in
\* order, followed by the pushed snapshot.
C5_HistoryBounded ==
    [][/\ Len(undo_history') <= 10
       /\ (/\ event'.op \in {"new", "edit", "set_content"}
           /\ Len(undo_history) = 10
           /\ Truthy(markdown_content)
           /\ markdown_content # Last(undo_history))
             => undo_history' = Append(Tail(undo_history), markdown_content)]_vars

\* C5 witness: an edit pushed an 11th snapshot and the history holds 10.
C5_Evicted ==
    /\ event.op = "edit"
    /\ event.hist_len = 10
    /\ event.idx = 11
    /\ Len(undo_history) = 10
    /\ Last(undo_history) = event.before

\* the runs that call _save_to_history on the document they start with
PushOps == {"new", "edit", "set_content"}

\* C6 (as claimed): a push whose snapshot equals the most recent entry leaves
\* the history unchanged; any other push makes the snapshot the most recent entry.
C6_PushAppendsUnlessDuplicate ==
    [][event'.op \in PushOps =>
         IF undo_history # <<>> /\ markdown_content = Last(undo_history)
         THEN undo_history' = undo_history
         ELSE undo_history' # <<>> /\ Last(undo_history') = markdown_content]_vars

\* C6 (amended): a push whose snapshot is empty or equals the most recent entry
\* leaves the history unchanged; a push of a non-empty snapshot that differs
\* from the most recent entry (or onto an empty history) appends it as the new
\* most recent entry.
C6_PushAppendsNonEmptyUnlessDuplicate ==
    [][event'.op \in PushOps =>
         IF ~Truthy(markdown_content)
               \/ (undo_history # <<>> /\ markdown_content = Last(undo_history))
         THEN undo_history' = undo_history
         ELSE /\ undo_history' # <<>>
              /\ Last(undo_history') = markdown_content
              /\ Len(undo_history) < 10 => Front(undo_history') = undo_history]_vars

\* C6 witness: set_content replaced a document that was already the most
\* recent entry, and nothing was appended.
C6_DuplicateSuppressed ==
    /\ event.op = "set_content"
    /\ Truthy(event.before)
    /\ event.hist_len >= 1
    /\ event.idx = event.hist_len
    /\ Len(undo_history) = event.hist_len
    /\ Last(undo_history) = event.before

\* a sequence without the entries that repeat their predecessor
RECURSIVE Collapse(_)
Collapse(seq) ==
    IF Len(seq) <= 1 THEN seq
    ELSE LET c == Collapse(Front(seq))
         IN  IF Last(c) = Last(seq) THEN c ELSE Append(c, Last(seq))

\* the document after k undo calls, when the undo calls step back through
\* the last 10 of priors (oldest first) and final was the document before them
AfterUndos(priors, k, final) ==
    LET n == Len(priors)
        m == IF n < 10 THEN n ELSE 10
    IN  IF m = 0 THEN final
        ELSE IF k <= m THEN priors[n - k + 1]
        ELSE priors[n - m + 1]

\* the entries left in a history of n entries (at most 10 kept) after k undo calls
LeftAfterUndos(n, k) ==
    LET m == IF n < 10 THEN n ELSE 10
    IN  IF k <= m THEN m - k ELSE 0

\* C7 (as claimed): after set_content calls and then k undo calls, the document
\* is the k-th most recent distinct prior content (the document as it stood
\* once the undo history is exhausted).
C7_UndoReturnsDistinctPriors ==
    undone >= 1 => markdown_content = AfterUndos(trail, undone, last_set)

\* C7 (amended): the same for the non-empty prior contents: the calls on a
\* fresh canvas record the non-empty contents they replace, a content equal
\* to the one recorded last counting once; the k-th undo sets the document to
\* the k-th most recent of them while k is at most 10 and at most their
\* number, and every further undo changes nothing.
C7_UndoReturnsNonEmptyPriors ==
    undone >= 1 =>
        LET priors == Collapse(SelectSeq(trail, Truthy))
        IN  /\ markdown_content = AfterUndos(priors, undone, last_set)
            /\ Len(undo_history) = LeftAfterUndos(Len(priors), undone)

\* C7 witness: 11 non-empty contents were replaced and 11 undo calls made: the
\* tenth undo restored the oldest content kept, the eleventh changed nothing.
C7_Exhausted ==
    /\ undone = 11
    /\ Len(Collapse(SelectSeq(trail, Truthy))) = 11
    /\ undo_history = <<>>
    /\ markdown_content = Collapse(SelectSeq(trail, Truthy))[2]
    /\ markdown_content # last_set
    /\ event.op = "undo"

\* C8 (as claimed): from any content P, set_content(A), set_content(B), undo,
\* undo with P, A, B pairwise different leaves the document equal to P.
C8_RoundTripRestores ==
    (/\ undone = 2
     /\ Len(trail) = 2
     /\ trail[1] # trail[2]
     /\ trail[1] # last_set
     /\ trail[2] # last_set)
        => markdown_content = trail[1]

\* C8 (amended): the same for non-empty P and A (B may be empty).
C8_RoundTripRestoresNonEmpty ==
    (/\ undone = 2
     /\ Len(trail) = 2
     /\ Truthy(trail[1])
     /\ Truthy(trail[2])
     /\ trail[1] # trail[2]
     /\ trail[1] # last_set
     /\ trail[2] # last_set)
        => markdown_content = trail[1]

\* C8 witness: from "a" over a full history ending in "b": set "b", set "c",
\* undo, undo; the two pushes evicted the two oldest entries.
C8_RoundTripDone ==
    /\ undone = 2
    /\ trail = << <<"a">>, <<"b">> >>
    /\ last_set = <<"c">>
    /\ markdown_content = <<"a">>
    /\ Len(undo_history) = HistoryLimit - 2
    /\ Last(undo_history) = <<"b">>

\* C9: undo on an empty history changes neither the document nor the history
\* and notifies nobody; undo on a non-empty history removes exactly the most
\* recent entry, makes it the document and sends one notification with it.
C9_UndoPopsOrNothing ==
    [][event'.op = "undo" =>
         IF undo_history = <<>>
         THEN /\ markdown_content' = markdown_content
              /\ undo_history' = undo_history
              /\ notified' = <<>>
         ELSE /\ undo_history' = SubSeq(undo_history, 1, Len(undo_history) - 1)
              /\ markdown_content' = undo_history[Len(undo_history)]
              /\ notified' = <<undo_history[Len(undo_history)]>>]_vars

\* C9 witness: undo was called on an empty history.
C9_UndoOnEmpty ==
    /\ event.op = "undo"
    /\ event.hist_len = 0
    /\ markdown_content = <<"a">>
    /\ event.before = <<"a">>
    /\ undo_history = <<>>
    /\ notified = <<>>

\* the runs of New, of a file load and of a direct edit
MutatingStep ==
    \/ event'.op \in {"new", "edit"}
    \/ /\ event'.op = "upload"
       /\ (uploaded_file' # last_uploaded_file \/ ~file_processed)

\* C10 (as claimed): after New, a file load or a direct edit the most recent
\* undo entry is the document as it was before the action.
C10_PushBeforeMutation ==
    [][MutatingStep =>
         /\ undo_history' # <<>>
         /\ Last(undo_history') = markdown_content]_vars

\* C10 (amended): the same whenever the document before the action is not empty.
C10_PushBeforeMutationNonEmpty ==
    [][(MutatingStep /\ Truthy(markdown_content)) =>
         /\ undo_history' # <<>>
         /\ Last(undo_history') = markdown_content]_vars

\* C10 witness: a file was loaded over the document "b".
C10_LoadedOverDocument ==
    /\ event.op = "upload"
    /\ event.before = <<"b">>
    /\ markdown_content = <<"a">>
    /\ undo_history # <<>>
    /\ Last(undo_history) = <<"b">>

\* C11: after set_content(c, save_history) get_content returns c and the
\* on-change callback was called exactly once, with c; with save_history
\* false the call leaves the undo history as it was.
C11_SetContentStoresAndNotifies ==
    [][event'.op \in {"set_content", "set_content_nosave"} =>
         /\ GetContent' = last_set'
         /\ notified' = <<last_set'>>
         /\ (event'.op = "set_content_nosave" => undo_history' = undo_history)]_vars

\* C11 witness: set_content("b", save_history=False) replaced the document "a".
C11_SetWithoutSaving ==
    /\ event.op = "set_content_nosave"
    /\ event.before = <<"a">>
    /\ last_set = <<"b">>
    /\ markdown_content = <<"b">>
    /\ notified = << <<"b">> >>
    /\ undo_history # <<>>
    /\ Len(undo_history) = event.hist_len

\* c is text after position i, without the whitespace at its two ends
TrimmedRest(text, i, c) ==
    \E lo \in (i + 1)..(Len(text) + 1), hi \in i..Len(text) :
        /\ c = SubSeq(text, lo, hi)
        /\ \A k \in (i + 1)..(lo - 1) : text[k] = Space
        /\ \A k \in (hi + 1)..Len(text) : text[k] = Space
        /\ c # <<>> => (c[1] # Space /\ c[Len(c)] # Space)

\* i is the position of the first occurrence of the phrase in text
FirstMarkerAt(text, i) ==
    /\ i \in 1..Len(text)
    /\ text[i] = Marker
    /\ \A k \in 1..(i - 1) : text[k] # Marker

\* C12: a proposal extracted from a response text is the text after the
\* first occurrence of the phrase, without leading and trailing whitespace,
\* a later occurrence of the phrase staying in it; once the chat has been
\* rendered every response with the phrase has its proposal; a text without
\* the phrase gives no proposal.
C12_ProposalIsTrimmedRest ==
    Len(chat_history) = 3 =>
        LET text == chat_history[3].content
        IN  /\ pending_edit.set =>
                  \E i \in 1..Len(text) :
                      /\ FirstMarkerAt(text, i)
                      /\ TrimmedRest(text, i, pending_edit.content)
            /\ (event.op = "rerun" /\ \E i \in 1..Len(text) : text[i] = Marker)
                  => pending_edit.set
            /\ (\A i \in 1..Len(text) : text[i] # Marker) => pending_edit = NoEdit

\* C12 witness: the response "<phrase> a<phrase>" gave the proposal "a<phrase>".
C12_LaterMarkerKept ==
    /\ Len(chat_history) = 3
    /\ chat_history[3].content = <<Marker, Space, "a", Marker>>
    /\ pending_edit = SomeEdit(<<"a", Marker>>)
    /\ event.op = "rerun"

\* C13 (as claimed): process_user_input marks the assistant turn has_edit and
\* stores a proposal in pending_edit exactly when the response text holds the
\* phrase anywhere.
C13_ProposalIffMarkerAnywhere ==
    [][event'.op = "send" =>
         LET turn == chat_history'[Len(chat_history')]
             has == \E i \in 1..Len(turn.content) : turn.content[i] = Marker
         IN  /\ has <=> turn.has_edit
             /\ has => pending_edit'.set]_vars

\* C14 (as claimed): whichever Apply button the user presses, the document
\* becomes the proposal of the newest assistant turn that holds the phrase.
C14_ApplySetsNewestProposal ==
    [][event'.op = "apply" =>
         LET proposals == {j \in 1..Len(chat_history) :
                             /\ chat_history[j].role = "assistant"
                             /\ \E k \in 1..Len(chat_history[j].content) :
                                    chat_history[j].content[k] = Marker}
             newest == CHOOSE j \in proposals : \A k \in proposals : k <= j
         IN  markdown_content' = AfterMarker(chat_history[newest].content)]_vars

\* C15: for the input "/research q" with a non-blank q and the research
\* handler installed, process_user_input appends exactly the user turn
\* "Research: q" (q without the whitespace around it) and an assistant turn
\* holding the handler's return value, and leaves the document as the handler
\* left it.
C15_ResearchAddsTwoTurns ==
    [][event'.op = "research" =>
         LET call == event'.call
             out == HandleResearchRequest(call.env, call.result, markdown_content)
         IN  ~out.raised =>
                 /\ \E q \in {SubSeq(call.input, lo, hi) :
                                  lo \in 3..Len(call.input), hi \in 3..Len(call.input)} :
                        /\ q # <<>>
                        /\ TrimmedRest(call.input, 2, q)
                        /\ chat_history' = chat_history \o
                               << [role |-> "user", content |-> <<"Research: ">> \o q,
                                   has_edit |-> FALSE],
                                  [role |-> "assistant", content |-> out.text,
                                   has_edit |-> FALSE] >>
                 /\ markdown_content' = out.doc]_vars

\* C15 witness: "/research  q " was sent, the webhook answered with content.
C15_ResearchAnswered ==
    /\ event.op = "research"
    /\ event.call.input = <<ResearchCommand, Space, Space, "q", Space>>
    /\ Len(chat_history) = 3
    /\ chat_history[2].content = <<"Research: ", "q">>
    /\ chat_history[3].content = ResearchAddedText
    /\ event.before = Empty
    /\ markdown_content = <<ResearchHeading, "r">>

\* the message is the research command followed by a non-blank query
NonBlankResearch(u) ==
    /\ Len(u) >= 3
    /\ u[1] = "/research"
    /\ u[2] = Space
    /\ \E k \in 3..Len(u) : u[k] # Space

\* C16 (as claimed): no message that starts with "/research " reaches the LLM.
C16_PrefixNeverReachesLLM ==
    [][event'.op = "send" =>
         LET u == chat_history'[Len(chat_history') - 1].content
         IN  ~(Len(u) >= 2 /\ u[1] = "/research" /\ u[2] = Space)]_vars

\* C16 (amended): the application installs a research handler, and with it a
\* message that starts with "/research " and has a non-blank query never
\* reaches the LLM; the research branch handles these messages and no other.
C16_NonBlankResearchBypassesLLM ==
    [][/\ event'.op = "send" =>
            ~NonBlankResearch(chat_history'[Len(chat_history') - 1].content)
       /\ event'.op = "research" => NonBlankResearch(event'.call.input)]_vars

\* C16 witness: "/research q" was handled by the research branch.
C16_ResearchHandled ==
    /\ event.op = "research"
    /\ event.call.input = <<"/research", Space, "q">>
    /\ \A k \in 1..Len(chat_history) : chat_history[k].content # ThinkingText
    /\ chat_history[Len(chat_history) - 1].role = "user"
    /\ chat_history[Len(chat_history) - 1].content = <<"Research: ", "q">>

\* C17: a request/response cycle ends normally, with two more turns and the
\* rerun of the page, whatever the external call did; when the LLM call
\* raised or returned None, or the research handler raised, the assistant
\* turn of the cycle is an error message, and when generate_response caught
\* the exception itself the turn is its "Error: ..." text.
C17_CycleEndsWithErrorTurn ==
    [][event'.op \in {"send", "research"} =>
         LET turn == chat_history'[Len(chat_history')]
             call == event'.call
         IN  /\ pc' = "rerun"
             /\ Len(chat_history') = Len(chat_history) + 2
             /\ SubSeq(chat_history', 1, Len(chat_history)) = chat_history
             /\ turn.role = "assistant"
             /\ (event'.op = "send" /\ call.kind \in {"none", "raises"})
                   => turn.content = <<"Error generating response: ">>
             /\ (event'.op = "send" /\ call.kind = "error_text")
                   => turn.content = <<"Error: ">>
             /\ (event'.op = "research" /\ call.raised)
                   => turn.content = <<"Error during research: ">>]_vars

\* C17 witness: generate_response returned None and the cycle ended with an
\* error turn.
C17_NoneAnswered ==
    /\ event.op = "send"
    /\ event.call.kind = "none"
    /\ pc = "rerun"
    /\ chat_history[Len(chat_history)].content = <<"Error generating response: ">>

\* the external call of the cycle failed
CallFailed(op, call) ==
    \/ op = "send" /\ call.kind \in {"none", "raises", "error_text"}
    \/ /\ op = "research"
       /\ \/ call.raised
          \/ call.env.use_n8n /\ call.env.url_set /\ call.result.kind # "json"

\* C18 (as claimed): a cycle whose external call failed leaves the document,
\* the undo history and the pending proposal as they were.
C18_FailurePreservesState ==
    [][(event'.op \in {"send", "research"} /\ CallFailed(event'.op, event'.call)) =>
         /\ markdown_content' = markdown_content
         /\ undo_history' = undo_history
         /\ pending_edit' = pending_edit]_vars

\* C19: handle_research_request changes the document only when n8n is
\* enabled, the webhook URL is set and the webhook answers with a dict that
\* has no error and a non-empty content; the document is then the old one
\* followed by the heading and the content.  In every other outcome the
\* document is unchanged.
C19_ResearchAppendsOnSuccessOnly ==
    [][event'.op = "research" =>
         LET env == event'.call.env
             result == event'.call.result
             body == result.body
             carries == /\ env.use_n8n
                        /\ env.url_set
                        /\ result.kind = "json"
                        /\ body.type = "dict"
                        /\ "error" \notin DOMAIN body.value
                        /\ "content" \in DOMAIN body.value
                        /\ body.value.content # <<>>
         IN  IF carries
             THEN markdown_content' = markdown_content \o <<"H">> \o body.value.content
             ELSE markdown_content' = markdown_content]_vars

\* C19 witness: research results were appended to the document "a".
C19_ResultsAppended ==
    /\ event.op = "research"
    /\ event.before = <<"a">>
    /\ event.call.result.kind = "json"
    /\ markdown_content = <<"a", "H", "r">>

\* C20: when the webhook call fails with a timeout, an SSL error, a
\* connection error or an HTTP error status, send_research_request returns a
\* dict with an error field, process_webhook_response turns it into
\* success=False with that error and no data, nothing is raised, and the
\* cycle ends with an assistant turn "Research error: <that error>".
C20_WebhookFailureBecomesErrorTurn ==
    [][(/\ event'.op = "research"
        /\ event'.call.env.use_n8n
        /\ event'.call.env.url_set
        /\ event'.call.result.kind \in {"timeout", "ssl", "connection", "http"}) =>
         LET response == SendResearchRequest(TRUE, event'.call.result)
             processed == ProcessWebhookResponse(response)
             turn == chat_history'[Len(chat_history')]
         IN  /\ response.type = "dict"
             /\ "error" \in DOMAIN response.value
             /\ response.value.error # <<>>
             /\ processed.success = FALSE
             /\ processed.error = response.value.error
             /\ processed.data = [type |-> "null"]
             /\ ~event'.call.raised
             /\ pc' = "rerun"
             /\ turn.role = "assistant"
             /\ turn.content = <<"Research error: ">> \o response.value.error]_vars

\* C20 witness: the webhook call timed out.
C20_TimedOut ==
    /\ event.op = "research"
    /\ event.call.env = [use_n8n |-> TRUE, url_set |-> TRUE]
    /\ event.call.result.kind = "timeout"
    /\ chat_history[Len(chat_history)].content[1] = "Research error: "
    /\ markdown_content = event.before

\* C21 (as claimed): a run in which Send was pressed with an empty or
\* whitespace-only message changes nothing: the chat history, the document,
\* the undo history and the pending proposal are as before, and no service
\* was called.
C21_BlankSendChangesNothing ==
    [][event'.op = "blank_send" =>
         /\ chat_history' = chat_history
         /\ markdown_content' = markdown_content
         /\ undo_history' = undo_history
         /\ pending_edit' = pending_edit]_vars

\* C22 (as claimed): every operation that changes the document (New, file
\* load, direct edit, undo, set_content, applying a proposal, appending
\* research results) calls on_content_change once, with the new content.
C22_EveryMutationNotifies ==
    [][(markdown_content' # markdown_content) =>
          notified' = <<markdown_content'>>]_vars

IsPrefix(a, b) == Len(a) <= Len(b) /\ SubSeq(b, 1, Len(a)) = a

\* C23: the chat history is append-only between clears: after every run
\* other than a Clear Chat run (send, apply, cancel, new, undo, upload, edit,
\* plain render) the chat history of before is a prefix of the chat history
\* of after, turn for turn.
C23_ChatAppendOnly ==
    [][event'.op # "clear_chat" => IsPrefix(chat_history, chat_history')]_vars

\* C23 witness: a proposal was applied in a chat of at least two exchanges
C23_AppendedAfterExchanges ==
    /\ event.op = "apply"
    /\ Len(chat_history) >= 6
    /\ Last(chat_history) = AppliedTurn

C25_PendingHasSourceTurn ==
    pending_edit.set =>
        \E i \in 1..Len(chat_history) :
            /\ chat_history[i].role = "assistant"
            /\ ContainsMarker(chat_history[i].content)
            /\ AfterMarker(chat_history[i].content) = pending_edit.content

\* C26: every completed call of process_user_input (the LLM path and the
\* research path, whether the service answered or failed) leaves the chat
\* history of before with exactly two more turns, a user turn and then an
\* assistant turn, and the assistant turn no longer holds the placeholder
\* text "Thinking..." or "Researching... please wait.".
C26_CallAddsUserAndAnswer ==
    [][event'.op \in {"send", "research"} =>
         LET n == Len(chat_history)
         IN  /\ Len(chat_history') = n + 2
             /\ IsPrefix(chat_history, chat_history')
             /\ chat_history'[n + 1].role = "user"
             /\ chat_history'[n + 2].role = "assistant"
             /\ chat_history'[n + 2].content \notin {ThinkingText, ResearchingText}]_vars

\* C26 witness: a call whose LLM request raised ended with the error text in
\* the place of the placeholder
C26_FailureReplacedPlaceholder ==
    /\ event.op = "send"
    /\ event.call.kind = "raises"
    /\ Len(chat_history) >= 3
    /\ chat_history[Len(chat_history) - 1].role = "user"
    /\ Last(chat_history) = Turn("assistant", ErrorGeneratingText)

\* C27 (as claimed): with Perplexity enabled and available, a message that
\* contains a research indicator makes process_user_input issue an LLM request
\* that offers the two Perplexity tools and forces the tool choice
\* research_with_perplexity, whether or not the message also holds a search
\* keyword.
C27_ResearchModeForcesResearchTool ==
    [][(/\ event'.op = "send"
        /\ event'.call.env.use_perplexity
        /\ event'.call.env.perplexity
        /\ ShouldUseResearchMode(event'.call.input)) =>
         /\ event'.call.request.tools = PerplexityTools
         /\ event'.call.request.tool_choice = "research_with_perplexity"]_vars

\* C28: generate_response never raises.  When the service answers, the
\* conversation history of before gains the prompt as a user message and
\* then the response as an assistant message, and nothing else; when
\* anything fails, the call returns a text that starts with "Error: " and
\* the conversation history is the one of before.
C28_GenerateAppendsOrReportsError ==
    [][event'.op = "generate" =>
         LET call == event'.call
         IN  /\ ~call.raised
             /\ ~call.failed =>
                   /\ Len(conversation_history') = Len(conversation_history) + 2
                   /\ IsPrefix(conversation_history, conversation_history')
                   /\ conversation_history'[Len(conversation_history) + 1]
                          = [role |-> "user", content |-> call.prompt]
                   /\ conversation_history'[Len(conversation_history) + 2].role = "assistant"
                   /\ conversation_history'[Len(conversation_history) + 2].content
                          = call.result.text
             /\ call.failed =>
                   /\ ~call.result.is_none
                   /\ Head(call.result.text) = "Error: "
                   /\ conversation_history' = conversation_history]_vars

\* C28 witness: after an answered call, a call failed in the completion that
\* follows the tool calls
C28_FailedAfterToolCalls ==
    /\ event.op = "generate"
    /\ event.call.failed
    /\ event.call.api.first = "tool_calls"
    /\ event.call.api.args_ok
    /\ Len(conversation_history) >= 3
    /\ Last(conversation_history).role = "assistant"

\* C29 (as claimed): when the import of an uploaded file fails (a text that
\* cannot be decoded, a Word or PDF file that cannot be read), the document
\* is the one of before the upload: it is never replaced by an error text.
C29_FailedImportKeepsDocument ==
    [][(event'.op = "upload" /\ ImportFails(uploaded_file')) =>
          markdown_content' = markdown_content]_vars

\* C30 (as claimed): generate_table_of_contents returns the empty string
\* for a text without headers; otherwise it returns the title line followed
\* by exactly one entry per header, in document order, indented by two
\* spaces per level above 1, leaving out the first header alone and only
\* when that header is of level 1.
C30_OneEntryPerHeaderButTitle ==
    [][event'.op = "toc" =>
         LET headers == ExtractHeaders(event'.call.text)
             result == event'.call.result
             first == IF headers # <<>> /\ headers[1].level = 1 THEN 2 ELSE 1
         IN  IF headers = <<>>
             THEN result = <<>>
             ELSE /\ Len(result) = 1 + Len(headers) - (first - 1)
                  /\ result[1] = TocTitle
                  /\ \A k \in first..Len(headers) :
                        LET entry == result[1 + k - (first - 1)]
                        IN  /\ entry.link_text = headers[k].text
                            /\ entry.indent = 2 * (headers[k].level - 1)]_vars

====
